---- MODULE Spec2Model ----
(***************************************************************************)
(* pdf-outliner: one run of the command line, cli -> process_pdf ->        *)
(* extract_text_with_pages -> analyze_pdf_with_llm -> add_bookmarks_to_pdf.*)
(* The bookmark loop of add_bookmarks_to_pdf is modelled one iteration per *)
(* step.                                                                   *)
(*                                                                         *)
(* A bookmark is the record add_outline_item was called with; its id is    *)
(* its position in `bookmarks` (the order of creation) and the id 0 is     *)
(* Python's None, the root of the outline.  pypdf appends a new outline    *)
(* item as the last child of its parent, so the children of a node are the *)
(* bookmarks naming it as parent, in order of creation.                    *)
(*                                                                         *)
(* N is the page count of the input document: extract_text_with_pages and  *)
(* add_bookmarks_to_pdf both read it from the same file, and the writer    *)
(* gets every page of it, so len(writer.pages) = N.                        *)
(*                                                                         *)
(* A heading's title is opaque to the code; the model tags each heading    *)
(* with its position in the list, so a bookmark names the heading it was   *)
(* made from.                                                              *)
(***************************************************************************)
EXTENDS Integers, Sequences, FiniteSets, TLC

\* Bounds of the model.
MaxHeadings == 3
MaxPages == 1

\* Field constraints of Heading (core.py, class Heading).
LEVEL_GE == 1
LEVEL_LE == 6
PAGE_GE == 1

VARIABLES
    pc,            \* position of the run
    input_exists,  \* args.input_pdf.exists()
    N,             \* len(reader.pages) of the input document
    response,      \* what litellm.completion returned (kind "none" before the call)
    outline,       \* outline.headings handed to add_bookmarks_to_pdf
    idx,           \* number of headings the for loop has consumed
    parent_stack,  \* parent_stack of add_bookmarks_to_pdf (0 is None)
    bookmarks,     \* the outline items added to the writer, in order of creation
    warnings,      \* the "Warning: Skipping heading" lines on stderr
    stdout,        \* the progress lines of process_pdf
    errors,        \* the "Error:" lines cli printed on stderr
    output,        \* the output file: "none", "partial" or "complete"
    raised,        \* the exception cli caught ("none" when none was raised)
    exit_code      \* the process's exit code (-1 while it runs)

vars == <<pc, input_exists, N, response, outline, idx, parent_stack,
          bookmarks, warnings, stdout, errors, output, raised, exit_code>>

----------------------------------------------------------------------------
\* Inputs

\* The levels a heading may carry: the declared range and what lies just
\* outside it (0, a negative level, one above the maximum).
LevelsIn == (LEVEL_GE - 2)..(LEVEL_LE + 1)

\* The pages a heading may carry in a document of np pages: 0, the pages of
\* the document, one past the last.
PagesIn(np) == (PAGE_GE - 1)..(np + 1)

\* The (level, page) pairs of the headings of a document of np pages.
LevelPage(np) == [level : LevelsIn, page : PagesIn(np)]

\* The heading list of the (level, page) pairs f; the i-th heading is titled i.
Titled(f) ==
    [i \in 1..Len(f) |-> [title |-> i, level |-> f[i].level, page |-> f[i].page]]

NoResponse == [kind |-> "none", headings |-> <<>>]

\* What the completion call can come back with: JSON of the shape
\* {"headings": [heading, ...]}, or an exception of the call, a content that is
\* not JSON, or JSON of another shape.
JsonResponse(hs) == [kind |-> "json", headings |-> hs]

BrokenResponses ==
    { [kind |-> k, headings |-> <<>>] : k \in {"call_error", "not_json", "bad_shape"} }

----------------------------------------------------------------------------
\* class Heading / DocumentOutline: pydantic validation

\* Variants of ValidHeading: a constraint of the field `level` is missing.
ValidHeadingNoFloor(h) == h.level <= LEVEL_LE /\ h.page >= PAGE_GE

ValidHeadingNoCeiling(h) == h.level >= LEVEL_GE /\ h.page >= PAGE_GE

ValidHeading(h) ==
    /\ h.level >= LEVEL_GE
    /\ h.level <= LEVEL_LE
    /\ h.page >= PAGE_GE

ValidOutline(hs) == \A i \in 1..Len(hs) : ValidHeading(hs[i])

\* Variant of ClassificationSucceeds: the parsed JSON is not validated.
ClassificationSucceedsUnvalidated(r) == r.kind = "json"

\* analyze_pdf_with_llm returns an outline exactly when nothing in its try
\* block raises.
ClassificationSucceeds(r) == r.kind = "json" /\ ValidOutline(r.headings)

----------------------------------------------------------------------------
\* add_bookmarks_to_pdf: the body of the for loop

\* Variant of PageNum: the page is not converted to a 0-based index.
PageNumOneBased(h) == h.page

PageNum(h) == h.page - 1

\* Variants of OutOfRange: the upper comparison is off by one; it is missing.
OutOfRangeOffByOne(page_num, n) == page_num < 0 \/ page_num > n

OutOfRangeNoUpper(page_num, n) == page_num < 0

OutOfRange(page_num, n) == page_num < 0 \/ page_num >= n

\* The value standing for "list.pop() raised IndexError".
PopFromEmpty == <<0 - 1>>

\* Variants of Contract: the loop stops one entry early; the loop is missing.
RECURSIVE ContractOneShort(_, _)
ContractOneShort(stack, level) ==
    IF Len(stack) > level + 1
    THEN ContractOneShort(SubSeq(stack, 1, Len(stack) - 1), level)
    ELSE stack

ContractMissing(stack, level) == stack

\* while len(parent_stack) > heading.level: parent_stack.pop()
RECURSIVE Contract(_, _)
Contract(stack, level) ==
    IF Len(stack) > level
    THEN IF Len(stack) = 0
         THEN PopFromEmpty
         ELSE Contract(SubSeq(stack, 1, Len(stack) - 1), level)
    ELSE stack

\* Variant of ParentOf: every bookmark is added at the top level.
ParentOfNone(stack) == 0

\* parent = parent_stack[-1] if len(parent_stack) > 0 else None
ParentOf(stack) == IF Len(stack) > 0 THEN stack[Len(stack)] ELSE 0

\* Variant of Pad: the stack is not padded.
PadMissing(stack, level) == stack

\* while len(parent_stack) < heading.level: parent_stack.append(parent_stack[-1])
RECURSIVE Pad(_, _)
Pad(stack, level) ==
    IF Len(stack) < level
    THEN Pad(Append(stack, stack[Len(stack)]), level)
    ELSE stack

\* if len(parent_stack) == heading.level: append, else: parent_stack[level] = bookmark
Push(stack, level, bookmark) ==
    IF Len(stack) = level
    THEN Append(stack, bookmark)
    ELSE [stack EXCEPT ![level + 1] = bookmark]

\* writer.add_outline_item(title=..., page_number=..., parent=...)
OutlineItem(h, parent) ==
    [title |-> h.title, page_number |-> PageNum(h), parent |-> parent]

\* the warning printed for a skipped heading: its title and its page
WarningLine(h) == [title |-> h.title, page |-> h.page]

\* The locals of add_bookmarks_to_pdf when the loop starts.
LoopStart ==
    [parent_stack |-> <<0>>, bookmarks |-> <<>>, warnings |-> <<>>, raised |-> FALSE]

\* One iteration of the for loop on heading h, in a document of n pages.
LoopBody(st, h, n) ==
    IF OutOfRange(PageNum(h), n)
    THEN [st EXCEPT !.warnings = Append(@, WarningLine(h))]
    ELSE LET contracted == Contract(st.parent_stack, h.level)
             bookmark == Len(st.bookmarks) + 1
         IN  IF contracted = PopFromEmpty
             THEN [st EXCEPT !.parent_stack = <<>>, !.raised = TRUE]
             ELSE [st EXCEPT
                     !.bookmarks = Append(@, OutlineItem(h, ParentOf(contracted))),
                     !.parent_stack = Push(Pad(contracted, h.level), h.level, bookmark)]

\* The whole loop on the headings hs, from the locals st.
RECURSIVE RunLoop(_, _, _)
RunLoop(st, hs, n) ==
    IF hs = <<>> \/ st.raised
    THEN st
    ELSE RunLoop(LoopBody(st, Head(hs), n), Tail(hs), n)

\* add_bookmarks_to_pdf on the headings hs, up to the writing of the output.
AddBookmarks(hs, n) == RunLoop(LoopStart, hs, n)

----------------------------------------------------------------------------
Init ==
    /\ pc = "cli"
    /\ input_exists \in BOOLEAN
    /\ N \in 0..MaxPages
    /\ response = NoResponse
    /\ outline = <<>>
    /\ idx = 0
    /\ parent_stack = <<0>>
    /\ bookmarks = <<>>
    /\ warnings = <<>>
    /\ stdout = <<>>
    /\ errors = <<>>
    /\ output = "none"
    /\ raised = "none"
    /\ exit_code = 0 - 1

\* cli, except Exception: one line on stderr, sys.exit(1)
Fails(exc) ==
    /\ raised' = exc
    /\ pc' = "exit"
    /\ errors' = Append(errors, exc)
    /\ exit_code' = 1

\* cli: the input file does not exist
cli_input_missing ==
    /\ pc = "cli"
    /\ ~input_exists
    /\ pc' = "exit"
    /\ errors' = Append(errors, "InputNotFound")
    /\ exit_code' = 1
    /\ UNCHANGED <<input_exists, N, response, outline, idx, parent_stack,
                   bookmarks, warnings, stdout, output, raised>>

\* process_pdf: extract_text_with_pages returns the pages
extract_text_with_pages ==
    /\ pc = "cli"
    /\ input_exists
    /\ pc' = "classify"
    /\ stdout' = stdout \o <<"reading", "found", "analyzing">>
    /\ UNCHANGED <<input_exists, N, response, outline, idx, parent_stack,
                   bookmarks, warnings, errors, output, raised, exit_code>>

\* process_pdf: PdfReader cannot read the input
extract_fails ==
    /\ pc = "cli"
    /\ input_exists
    /\ stdout' = Append(stdout, "reading")
    /\ Fails("PdfReadError")
    /\ UNCHANGED <<input_exists, N, response, outline, idx, parent_stack,
                   bookmarks, warnings, output>>

\* analyze_pdf_with_llm returns the validated outline; add_bookmarks_to_pdf
\* is entered
analyze_pdf_with_llm ==
    /\ pc = "classify"
    /\ \E n \in 0..MaxHeadings : \E f \in [1..n -> LevelPage(N)] :
        LET r == JsonResponse(Titled(f)) IN
        /\ ClassificationSucceeds(r)
        /\ response' = r
        /\ outline' = r.headings
    /\ pc' = "build"
    /\ stdout' = stdout \o <<"detected", "adding">>
    /\ parent_stack' = LoopStart.parent_stack
    /\ UNCHANGED <<input_exists, N, idx, bookmarks, warnings, errors, output,
                   raised, exit_code>>

\* analyze_pdf_with_llm raises RuntimeError
analyze_fails ==
    /\ pc = "classify"
    /\ \/ \E r \in BrokenResponses :
            /\ ~ClassificationSucceeds(r)
            /\ response' = r
       \/ \E n \in 0..MaxHeadings : \E f \in [1..n -> LevelPage(N)] :
            LET r == JsonResponse(Titled(f)) IN
            /\ ~ClassificationSucceeds(r)
            /\ response' = r
    /\ Fails("RuntimeError")
    /\ UNCHANGED <<input_exists, N, outline, idx, parent_stack, bookmarks,
                   warnings, stdout, output>>

\* The locals of the loop, as the state holds them.
Locals ==
    [parent_stack |-> parent_stack, bookmarks |-> bookmarks,
     warnings |-> warnings, raised |-> FALSE]

\* for loop: the heading's page is out of range, the heading is skipped
skip_heading ==
    /\ pc = "build"
    /\ idx < Len(outline)
    /\ OutOfRange(PageNum(outline[idx + 1]), N)
    /\ LET st == LoopBody(Locals, outline[idx + 1], N) IN
        /\ parent_stack' = st.parent_stack
        /\ bookmarks' = st.bookmarks
        /\ warnings' = st.warnings
    /\ idx' = idx + 1
    /\ UNCHANGED <<pc, input_exists, N, response, outline, stdout, errors,
                   output, raised, exit_code>>

\* for loop: the heading becomes a bookmark (or parent_stack.pop() raises
\* IndexError on the empty stack)
attach_heading ==
    /\ pc = "build"
    /\ idx < Len(outline)
    /\ ~OutOfRange(PageNum(outline[idx + 1]), N)
    /\ LET st == LoopBody(Locals, outline[idx + 1], N) IN
        /\ parent_stack' = st.parent_stack
        /\ bookmarks' = st.bookmarks
        /\ warnings' = st.warnings
        /\ IF st.raised
           THEN /\ Fails("IndexError")
                /\ UNCHANGED idx
           ELSE /\ idx' = idx + 1
                /\ UNCHANGED <<pc, errors, raised, exit_code>>
    /\ UNCHANGED <<input_exists, N, response, outline, stdout, output>>

\* the loop is over: the writer is written to output_path, process_pdf
\* returns and the process exits (with --show-outline cli first prints the
\* headings of the outline, which changes nothing of the state kept here)
write_output ==
    /\ pc = "build"
    /\ idx = Len(outline)
    /\ output' = "complete"
    /\ pc' = "exit"
    /\ stdout' = Append(stdout, "saved")
    /\ exit_code' = 0
    /\ UNCHANGED <<input_exists, N, response, outline, idx, parent_stack,
                   bookmarks, warnings, errors, raised>>

\* open(output_path, "wb") raises OSError (no file), or writer.write does (a
\* partial file)
write_fails ==
    /\ pc = "build"
    /\ idx = Len(outline)
    /\ output' \in {"none", "partial"}
    /\ Fails("OSError")
    /\ UNCHANGED <<input_exists, N, response, outline, idx, parent_stack,
                   bookmarks, warnings, stdout>>

Next ==
    \/ cli_input_missing
    \/ extract_text_with_pages
    \/ extract_fails
    \/ analyze_pdf_with_llm
    \/ analyze_fails
    \/ skip_heading
    \/ attach_heading
    \/ write_output
    \/ write_fails

Spec == Init /\ [][Next]_vars

----------------------------------------------------------------------------
\* Vocabulary of the properties

\* The headings the loop has consumed so far.
Processed == SubSeq(outline, 1, idx)

\* The heading's page is a page of the document.
InDocument(h) == 1 <= h.page /\ h.page <= N

NotInDocument(h) == ~InDocument(h)

\* The consumed headings that are kept, and those that are dropped.
Kept == SelectSeq(Processed, InDocument)

Dropped == SelectSeq(Processed, NotInDocument)

\* The level of the heading bookmark b was made from.
LevelOf(b) == outline[bookmarks[b].title].level

\* The depth of a bookmark in the tree: 1 under the root.
RECURSIVE Depth(_)
Depth(b) == IF b = 0 THEN 0 ELSE 1 + Depth(bookmarks[b].parent)

\* The children of node p (0: the root), in the order the writer holds them.
Children(p) ==
    SelectSeq([i \in 1..Len(bookmarks) |-> i], LAMBDA b : bookmarks[b].parent = p)

\* The depth-first pre-order traversal of the trees rooted at the nodes cs.
RECURSIVE Preorder(_)
Preorder(cs) ==
    IF cs = <<>>
    THEN <<>>
    ELSE <<Head(cs)>> \o Preorder(Children(Head(cs))) \o Preorder(Tail(cs))

\* The loop has run to its end and the document was written.
Written == pc = "exit" /\ output = "complete"

----------------------------------------------------------------------------
\* C1: when N >= 1 and every heading of the outline has a level in 1..6 and a
\* page in 1..N, the bookmarks are the headings one for one: so far as the
\* loop has come, the k-th bookmark carries the k-th heading's title and the
\* page index page - 1, no warning was printed and nothing was raised; and
\* once the document is written there are as many bookmarks as headings.
C1_OneBookmarkPerHeading ==
    ( /\ N >= 1
      /\ \A i \in 1..Len(outline) :
            /\ outline[i].level \in 1..6
            /\ InDocument(outline[i]) )
    =>
    /\ warnings = <<>>
    /\ raised # "IndexError"
    /\ Len(bookmarks) = idx
    /\ \A k \in 1..idx :
        /\ bookmarks[k].title = outline[k].title
        /\ bookmarks[k].page_number = outline[k].page - 1
    /\ Written => Len(bookmarks) = Len(outline)

C1_Witness ==
    /\ Written
    /\ N >= 1
    /\ Len(outline) = MaxHeadings
    /\ \A i \in 1..Len(outline) : InDocument(outline[i])
    /\ outline[1].level = 6
    /\ outline[2].level = 1
    /\ Len(bookmarks) = MaxHeadings
    /\ warnings = <<>>

\* C2: a heading whose page is < 1 or > N makes no bookmark and one warning
\* (its title and page), leaves the stack as it was, and the loop goes on:
\* in every state the warnings are the dropped headings in order, and the
\* bookmarks and the stack are those the loop builds from the kept headings
\* alone; and wherever the loop stands, its body run on any heading with
\* such a page (page 0 included, whatever the level) changes nothing but
\* the warnings, which gain that heading's title and page.
SkipsCleanly(h) ==
    LoopBody(Locals, h, N) =
        [Locals EXCEPT !.warnings = Append(@, [title |-> h.title, page |-> h.page])]

C2_SkippedHeadingsLeaveNoTrace ==
    raised # "IndexError" =>
        /\ Len(warnings) = Len(Dropped)
        /\ \A k \in 1..Len(warnings) :
            /\ warnings[k].title = Dropped[k].title
            /\ warnings[k].page = Dropped[k].page
        /\ bookmarks = AddBookmarks(Kept, N).bookmarks
        /\ pc = "build" =>
            /\ parent_stack = AddBookmarks(Kept, N).parent_stack
            /\ \A l \in LevelsIn : \A p \in {0, N + 1} :
                SkipsCleanly([title |-> 0, level |-> l, page |-> p])
        /\ Written => idx = Len(outline)

C2_Witness ==
    /\ Written
    /\ N >= 1
    /\ Len(outline) = MaxHeadings
    /\ InDocument(outline[1])
    /\ ~InDocument(outline[2])
    /\ InDocument(outline[3])
    /\ outline[3].level > outline[1].level
    /\ Len(warnings) = 1
    /\ Len(bookmarks) = 2
    /\ bookmarks[2].parent = 1

\* C3: with levels >= 1, the parent of every bookmark is the bookmark of the
\* most recent earlier kept heading whose level is strictly smaller, or the
\* root (0) when there is none; and there are as many bookmarks as kept
\* headings.
ExpectedParent(b) ==
    LET shallower == { c \in 1..(b - 1) : LevelOf(c) < LevelOf(b) } IN
    IF shallower = {} THEN 0
    ELSE CHOOSE c \in shallower : \A d \in shallower : d <= c

C3_ParentIsNearestShallower ==
    (\A i \in 1..Len(outline) : outline[i].level >= 1)
    =>
    /\ Len(bookmarks) = Len(Kept)
    /\ \A b \in 1..Len(bookmarks) :
        /\ bookmarks[b].title = Kept[b].title
        /\ bookmarks[b].parent = ExpectedParent(b)

\* a level-4 heading directly after a level-1 heading is a child of it
C3_Witness ==
    /\ Written
    /\ Len(bookmarks) = 3
    /\ LevelOf(1) = 1
    /\ LevelOf(2) = 4
    /\ LevelOf(3) = 3
    /\ bookmarks[2].parent = 1
    /\ bookmarks[3].parent = 1

\* C4: the depth of a bookmark never exceeds the level of its heading, and
\* in a well-formed outline (every page in the document, the first level 1,
\* every level at most one more than the level before) the depth of every
\* bookmark is the level of its heading.
WellFormed ==
    /\ \A i \in 1..Len(outline) : InDocument(outline[i])
    /\ Len(outline) >= 1 => outline[1].level = 1
    /\ \A i \in 2..Len(outline) : outline[i].level <= outline[i - 1].level + 1

C4_DepthWithinLevel ==
    /\ \A b \in 1..Len(bookmarks) : Depth(b) <= LevelOf(b)
    /\ WellFormed => \A b \in 1..Len(bookmarks) : Depth(b) = LevelOf(b)

C4_Witness ==
    /\ Written
    /\ WellFormed
    /\ Len(bookmarks) = 3
    /\ LevelOf(1) = 1
    /\ LevelOf(2) = 2
    /\ LevelOf(3) = 3
    /\ Depth(3) = 3

\* C5: the bookmarks are in the order of the input: bookmark by bookmark they
\* are the kept headings, the children of every node (and the top-level
\* entries) are in the order of their headings, the depth-first pre-order
\* traversal of the forest is the sequence of the bookmarks as created, and
\* two headings in a row with the same level and page are both kept, with the
\* same parent.
Ascending(cs) ==
    \A j, k \in 1..Len(cs) :
        j < k => bookmarks[cs[j]].title < bookmarks[cs[k]].title

HasLevelBelow(hs) == \E i \in 1..Len(hs) : hs[i].level <= 0

HasLevelAbove(hs) == \E i \in 1..Len(hs) : hs[i].level > 6

Clamped(hs) ==
    [i \in 1..Len(hs) |->
        IF hs[i].level <= 0 THEN [hs[i] EXCEPT !.level = 1] ELSE hs[i]]

C6_LevelBelowOneIsClamped ==
    ( /\ pc = "exit"
      /\ response.kind = "json"
      /\ HasLevelBelow(response.headings)
      /\ ~HasLevelAbove(response.headings)
      /\ \A i \in 1..Len(response.headings) : InDocument(response.headings[i]) )
    =>
    /\ raised \in {"none", "OSError"}
    /\ bookmarks = AddBookmarks(Clamped(response.headings), N).bookmarks

\* C6 as amended: a heading with a level of 0 or less is not treated as
\* level 1.  A response that holds one fails the validation of Heading
\* (level >= 1): analyze_pdf_with_llm raises RuntimeError, the builder is not
\* entered, no bookmark is made, nothing is written and the process exits
\* with 1; so no heading the builder sees has a level below 1.
Rejected ==
    /\ pc = "exit"
    /\ raised = "RuntimeError"
    /\ errors = <<"RuntimeError">>
    /\ exit_code = 1
    /\ outline = <<>>
    /\ idx = 0
    /\ bookmarks = <<>>
    /\ warnings = <<>>
    /\ output = "none"
    /\ stdout = <<"reading", "found", "analyzing">>

\* The builder has no clamp of its own: wherever the loop stands, its body
\* run on a heading of the document with level 0 makes a top-level bookmark
\* that takes the place of the root in the stack, and with a negative level
\* it raises IndexError; neither is what level 1 gives.
UnclampedInBuilder(l, p) ==
    LET h == [title |-> 0, level |-> l, page |-> p]
        got == LoopBody(Locals, h, N)
        asLevelOne == LoopBody(Locals, [h EXCEPT !.level = 1], N)
    IN  /\ got # asLevelOne
        /\ asLevelOne.parent_stack = <<0, Len(bookmarks) + 1>>
        /\ l < 0 => got.raised
        /\ l = 0 =>
            /\ ~got.raised
            /\ got.bookmarks = asLevelOne.bookmarks
            /\ got.parent_stack = <<Len(bookmarks) + 1>>

C6_LevelBelowOneIsRejected ==
    /\ (response.kind = "json" /\ HasLevelBelow(response.headings)) => Rejected
    /\ \A i \in 1..Len(outline) : outline[i].level >= 1
    /\ pc = "build" =>
        \A l \in { x \in LevelsIn : x <= 0 } : \A p \in 1..N :
            UnclampedInBuilder(l, p)

C6_Witness ==
    /\ Rejected
    /\ response.kind = "json"
    /\ Len(response.headings) = 2
    /\ response.headings[1].level = 0
    /\ response.headings[1].page = 1
    /\ response.headings[2].level = 1
    /\ response.headings[2].page = 1
    /\ N = 1

\* C7 as claimed: with N = 0 the builder does not complete: the run ends in
\* an error and the output is not written.
C7_NoPagesIsAnError ==
    (N = 0 /\ pc = "exit" /\ Len(outline) >= 1)
    => (raised # "none" /\ output # "complete")

\* C7 as amended: with N = 0 the builder does not fail.  It skips every
\* heading with one warning each and makes no bookmark, runs to the end of
\* the outline and the run ends with exit code 0 and the output written,
\* unless writing the output raises OSError.
C7_NoPagesSkipsEveryHeading ==
    N = 0 =>
        /\ bookmarks = <<>>
        /\ parent_stack = <<0>>
        /\ Len(warnings) = idx
        /\ \A k \in 1..idx :
            /\ warnings[k].title = outline[k].title
            /\ warnings[k].page = outline[k].page
        /\ (pc = "exit" /\ response.kind = "json" /\ raised # "RuntimeError") =>
            /\ idx = Len(outline)
            /\ raised \in {"none", "OSError"}
            /\ raised = "none" => (exit_code = 0 /\ output = "complete")

C7_Witness ==
    /\ N = 0
    /\ Written
    /\ exit_code = 0
    /\ raised = "none"
    /\ Len(outline) = MaxHeadings
    /\ Len(warnings) = MaxHeadings
    /\ bookmarks = <<>>

\* C8 as claimed: a response with a level above 6 (levels otherwise >= 1,
\* pages in the document) is not rejected: every heading of it becomes a
\* bookmark.
C8_LevelAboveSixIsAccepted ==
    ( /\ pc = "exit"
      /\ response.kind = "json"
      /\ HasLevelAbove(response.headings)
      /\ ~HasLevelBelow(response.headings)
      /\ \A i \in 1..Len(response.headings) : InDocument(response.headings[i]) )
    =>
    /\ raised \in {"none", "OSError"}
    /\ Len(bookmarks) = Len(response.headings)

\* C8 as amended: only the levels 1..6 are accepted.  A response that holds a
\* heading with a level above 6 fails the validation of Heading: the whole
\* batch is rejected (RuntimeError, no bookmark, nothing written, exit code
\* 1); a response whose levels are all in 1..6 and whose pages are all >= 1
\* is handed to the builder as it is.
C8_LevelAboveSixIsRejected ==
    /\ (response.kind = "json" /\ HasLevelAbove(response.headings)) => Rejected
    /\ ( /\ response.kind = "json"
         /\ \A i \in 1..Len(response.headings) :
              /\ response.headings[i].level \in 1..6
              /\ response.headings[i].page >= 1 )
       => (outline = response.headings /\ raised # "RuntimeError")

C8_Witness ==
    /\ Rejected
    /\ response.kind = "json"
    /\ Len(response.headings) = 2
    /\ response.headings[1].level = 1
    /\ response.headings[1].page = 1
    /\ response.headings[2].level = 7
    /\ response.headings[2].page = 1
    /\ N = 1

\* C9: the stages run in the order extract, classify, build and persist; a
\* failed classification (the call raised, the content is not JSON, the JSON
\* fails the schema) ends the run: the builder is not entered, nothing is
\* written, one RuntimeError line is printed and the exit code is 1; and the
\* exit code is 0 only when every stage completed.
StageLines == <<"reading", "found", "analyzing", "detected", "adding", "saved">>

ClassificationFailed ==
    \/ response.kind \in {"call_error", "not_json", "bad_shape"}
    \/ /\ response.kind = "json"
       /\ \E i \in 1..Len(response.headings) :
            \/ response.headings[i].level < 1
            \/ response.headings[i].level > 6
            \/ response.headings[i].page < 1

C9_StagesInOrderClassificationFatal ==
    /\ Len(stdout) <= Len(StageLines)
    /\ stdout = SubSeq(StageLines, 1, Len(stdout))
    /\ response.kind # "none" => Len(stdout) >= 3
    /\ (idx > 0 \/ bookmarks # <<>> \/ warnings # <<>> \/ output # "none")
        => (response.kind = "json" /\ ~ClassificationFailed /\ Len(stdout) >= 5)
    /\ output = "complete" => idx = Len(outline)
    /\ ClassificationFailed => Rejected
    /\ exit_code = 0 =>
        /\ stdout = StageLines
        /\ output = "complete"
        /\ raised = "none"
        /\ errors = <<>>
        /\ ~ClassificationFailed

C9_Witness ==
    /\ Rejected
    /\ response.kind = "not_json"
    /\ input_exists

\* C10: with levels >= 1 the stack is never empty and its slot 0 is the root
\* (None); right after a kept heading of level L it has L + 1 entries with
\* the new bookmark on top; and for the heading the loop takes next, the
\* stack after contraction is not empty and still starts with the root, and
\* after padding it has exactly L entries, so the push appends and the
\* branch that overwrites a slot is not taken.
C10_StackShape ==
    (\A i \in 1..Len(outline) : outline[i].level >= 1)
    =>
    /\ raised # "IndexError"
    /\ Len(parent_stack) >= 1
    /\ parent_stack[1] = 0
    /\ (idx >= 1 /\ InDocument(outline[idx])) =>
        /\ Len(parent_stack) = outline[idx].level + 1
        /\ parent_stack[Len(parent_stack)] = Len(bookmarks)
    /\ (pc = "build" /\ idx < Len(outline) /\ InDocument(outline[idx + 1])) =>
        LET L == outline[idx + 1].level
            contracted == Contract(parent_stack, L)
            padded == Pad(contracted, L)
        IN  /\ contracted # PopFromEmpty
            /\ Len(contracted) >= 1
            /\ contracted[1] = 0
            /\ Len(padded) = L
            /\ Push(padded, L, Len(bookmarks) + 1) = Append(padded, Len(bookmarks) + 1)

C10_Witness ==
    /\ pc = "build"
    /\ idx = 2
    /\ Len(outline) = 3
    /\ outline[1].level = 1
    /\ outline[2].level = 4
    /\ outline[3].level = 2
    /\ InDocument(outline[3])
    /\ parent_stack = <<0, 1, 1, 1, 2>>

====
